---- MODULE Spec2Model ----
(***************************************************************************)
(* A model of rating_bot.py: the vote ledger kept in the MongoDB           *)
(* collection post_votes, the three event handlers that touch it            *)
(* (add_rating_buttons, handle_vote, cmd_top) and the Telegram transport    *)
(* as far as the handlers observe it.                                       *)
(*                                                                          *)
(* Texts are modelled as strings, built and cut as the code builds and cuts *)
(* them.  A non-ASCII code point of the source is written as one ASCII      *)
(* character, so that len() is preserved:                                   *)
(*    U+1F4CA (bar chart) "%"    U+25A0 (filled block) "#"                   *)
(*    U+25A1 (empty block) "-"   U+2022 (bullet)       "+"                   *)
(*    U+1F46E (police)    "&"    U+1F465 (silhouettes) "@"                   *)
(*    U+1F512 (lock)      "$"    U+274C  (cross mark)  "!"                   *)
(*    U+1F3C6 (trophy)    "^"    U+2B50  (star)        "~"                   *)
(*                                                                          *)
(* Handlers are coroutines: a handler runs atomically between two awaits    *)
(* of a transport call (pymongo calls are synchronous).  Spec lets the      *)
(* handlers of two callback queries be suspended at the same time, as an    *)
(* application that dispatches updates concurrently does; an application    *)
(* that dispatches them one by one has the behaviours of Spec in which a    *)
(* call starts only when no other is in flight.                             *)
(***************************************************************************)
EXTENDS Integers, Sequences, FiniteSets, TLC

(***************************************************************************)
(* Bounds of the model.                                                     *)
(***************************************************************************)
\* number of channel messages (posts and panels) plus handled button clicks
\* (callback queries) in one behaviour
MaxActs == 4

\* the handler coroutines that may be in flight at the same time
Slots == {"h1", "h2"}
\* str(user.id) of the users that click
Users == {"501", "502"}
\* the channel (message.chat_id / query.message.chat_id)
ChatId == "-100123"

LongLast == "Featherstonehaugh-Cholmondeley-Marjoribanks-Wolfeschlegelstein-X"
\* (first_name, last_name) a user may carry when clicking; last "" is None
Profiles ==
    [ u \in Users |->
        IF u = "501"
        THEN { [first |-> "Ann", last |-> ""],
               [first |-> "Annabella-Seraphina-Theodora", last |-> LongLast] }
        ELSE { [first |-> "Bartholomew-Maximilian-Jr", last |-> LongLast] } ]

\* callback_data of the clicks that are handled
PayloadInputs == {"2", "3", "check_voters"}
\* text or caption of a channel post ("" is a media post without caption)
PostTexts == {"", "Hello world this is a long caption exceeding thirty chars"}
\* status returned by get_chat_member, or "error" when the call raises
MemberResults == {"creator", "administrator", "member", "error"}
\* outcome of edit_message_text when the content differs from what is shown
EditResults == {"ok", "BadRequest", "NetworkError"}

(***************************************************************************)
(* Strings.                                                                 *)
(***************************************************************************)
RECURSIVE Rep(_, _)
\* s * n  (the empty string for n <= 0)
Rep(s, n) == IF n <= 0 THEN "" ELSE s \o Rep(s, n - 1)

RECURSIVE Join(_, _)
\* sep.join(lines)
Join(lines, sep) ==
    IF lines = <<>> THEN ""
    ELSE IF Len(lines) = 1 THEN lines[1]
    ELSE lines[1] \o sep \o Join(Tail(lines), sep)

RECURSIVE Remove(_, _)
\* s.replace(sub, "")
Remove(s, sub) ==
    IF Len(s) < Len(sub) THEN s
    ELSE IF SubSeq(s, 1, Len(sub)) = sub
         THEN Remove(SubSeq(s, Len(sub) + 1, Len(s)), sub)
         ELSE SubSeq(s, 1, 1) \o Remove(SubSeq(s, 2, Len(s)), sub)

\* int(query.data) for a decimal payload
ParseInt(s) == CHOOSE n \in 0..99 : ToString(n) = s

\* The text Telegram stores and shows for a text sent with
\* parse_mode='Markdown': the asterisks are entity delimiters and are not
\* part of message.text.
ParseMarkdown(s) == Remove(s, "*")

(***************************************************************************)
(* Arithmetic on the average sum/n of integer scores.                       *)
(***************************************************************************)
\* round(x * scale) for x = total/n, ties to even: Python's round() and
\* the .1f format both round the (here exactly represented) half to even.
RoundHalfEven(total, n, scale) ==
    LET q == (scale * total) \div n
        r == (scale * total) % n
    IN  IF 2 * r < n THEN q
        ELSE IF 2 * r > n THEN q + 1
        ELSE IF q % 2 = 0 THEN q ELSE q + 1

\* f"{total / n:.1f}"
Format1f(total, n) ==
    LET t == RoundHalfEven(total, n, 10)
    IN  ToString(t \div 10) \o "." \o ToString(t % 10)

RECURSIVE SumScores(_)
\* sum(v['score'] for v in votes.values())
SumScores(votes) ==
    IF votes = <<>> THEN 0 ELSE Head(votes).score + SumScores(Tail(votes))

(***************************************************************************)
(* The votes sub-document: a sequence of fields, one per key, in the        *)
(* order the keys were first set.                                           *)
(***************************************************************************)
\* the keys of votes
VoteKeys(votes) == { votes[i].uid : i \in 1..Len(votes) }

\* votes[uid] for a key that is present
FindOneVote(votes, uid) == votes[CHOOSE i \in 1..Len(votes) : votes[i].uid = uid]

\* user_id_str in current_votes
HasVoted(votes, uid) == uid \in VoteKeys(votes)

\* a $push of the vote in place of the $set of the voter's field
SetVotePush(votes, uid, score, name) ==
    Append(votes, [uid |-> uid, score |-> score, name |-> name])

\* {'$set': {f'votes.{uid}': {'score': score, 'name': name}}}
SetVote(votes, uid, score, name) ==
    LET new == [uid |-> uid, score |-> score, name |-> name]
    IN  IF uid \in VoteKeys(votes)
        THEN [ i \in 1..Len(votes) |-> IF votes[i].uid = uid THEN new ELSE votes[i] ]
        ELSE Append(votes, new)

(***************************************************************************)
(* Texts the handlers build.                                                *)
(***************************************************************************)
\* the caption add_rating_buttons sends with the keyboard
InitialPanelText == "% **Rate this post:**\nNo ratings yet."
DbErrorText == "! Database Error. Try again later."
DeniedText == "$ You must vote first to see who else voted!"
EmptyText == "No one has voted yet."
NoRatedPostsText == "No rated posts found yet!"
TopDbErrorText == "! Database error: Cannot fetch leaderboard."
\* the popup alert limit the code truncates to, and the length it keeps
AlertLimit == 200
AlertKeep == 190
\* the number of leaderboard entries
TopN == 5
\* the length of the bar
BarLen == 10
\* the length a title is cut to
TitleLen == 30

\* callback_data of the buttons get_keyboard() attaches
KeyboardData == { ToString(i) : i \in 1..10 } \cup {"check_voters"}

\* f"{first} {last}" if last else first
UserName(profile) ==
    IF profile.last # "" THEN profile.first \o " " \o profile.last
    ELSE profile.first

\* post_text[:30] + "..." if len(post_text) > 30 else post_text
ShortTitle(text) ==
    LET post_text == IF text # "" THEN text ELSE "Media Post"
    IN  IF Len(post_text) > TitleLen
        THEN SubSeq(post_text, 1, TitleLen) \o "..."
        ELSE post_text

\* f"You rated this {new_score}/10"
RatedText(new_score) == "You rated this " \o ToString(new_score) \o "/10"

\* average_score as the pair (sum, count); 0 when there is no vote
\* filled_blocks = int(round(average_score))
FilledBlocks(votes) ==
    IF Len(votes) > 0 THEN RoundHalfEven(SumScores(votes), Len(votes), 1) ELSE 0

\* "#" * filled_blocks + "-" * (10 - filled_blocks)
ProgressBar(filled_blocks) ==
    Rep("#", filled_blocks) \o Rep("-", BarLen - filled_blocks)

\* the panel text handle_vote renders from the votes it re-read
PanelText(votes) ==
    "% **Rating: "
        \o (IF Len(votes) > 0 THEN Format1f(SumScores(votes), Len(votes)) ELSE "0.0")
        \o " / 10**\n"
        \o ProgressBar(FilledBlocks(votes))
        \o "\n(" \o ToString(Len(votes)) \o " votes)"

\* the admin's line for every requester
VoterLinesWithScore(votes, is_admin) ==
    [ i \in 1..Len(votes) |-> "+ " \o votes[i].name \o ": " \o ToString(votes[i].score) ]

\* the voter_lines of the disclosure
VoterLines(votes, is_admin) ==
    [ i \in 1..Len(votes) |->
        IF is_admin
        THEN "+ " \o votes[i].name \o ": " \o ToString(votes[i].score)
        ELSE "+ " \o votes[i].name ]

\* result_text of the disclosure, truncated for the alert box
VotersText(votes, is_admin) ==
    LET voter_lines == VoterLines(votes, is_admin)
        header == IF is_admin
                  THEN "& Admin View (" \o ToString(Len(voter_lines)) \o " votes):"
                  ELSE "@ Voters (" \o ToString(Len(voter_lines)) \o "):"
        result_text == header \o "\n" \o Join(voter_lines, "\n")
    IN  IF Len(result_text) > AlertLimit
        THEN SubSeq(result_text, 1, AlertKeep) \o "..."
        ELSE result_text

\* the branches in the other order: "no one has voted" before the access rule
DisclosureAnswerEmptyFirst(votes, uid, is_admin) ==
    IF votes = <<>> THEN EmptyText
    ELSE IF ~is_admin /\ ~HasVoted(votes, uid) THEN DeniedText
    ELSE VotersText(votes, is_admin)

\* the access rule without the has_voted test: every non-admin is denied
DisclosureAnswerDenyVoters(votes, uid, is_admin) ==
    IF ~is_admin THEN DeniedText
    ELSE IF votes = <<>> THEN EmptyText
    ELSE VotersText(votes, is_admin)

\* what the "check_voters" branch answers
DisclosureAnswer(votes, uid, is_admin) ==
    IF ~is_admin /\ ~HasVoted(votes, uid) THEN DeniedText
    ELSE IF votes = <<>> THEN EmptyText
    ELSE VotersText(votes, is_admin)

(***************************************************************************)
(* State.                                                                   *)
(***************************************************************************)
VARIABLES
    BOT_TOKEN,         \* TRUE iff the environment sets BOT_TOKEN
    MONGO_URI,         \* TRUE iff the environment sets MONGO_URI
    votes_collection,  \* "None" or "post_votes"
    phase,             \* "startup", "polling" (run_polling) or "exited"
    msgs,              \* the channel: message_id -> message, ids 1, 2, ...
    db,                \* the collection: its documents in natural order
    handlers,          \* the handle_vote coroutines, one per slot
    clicks,            \* number of callback queries dispatched so far
    cast,              \* history: <<message_id, uid>> -> the last vote event
    last               \* the handler call the last step completed, with its outputs

vars == << BOT_TOKEN, MONGO_URI, votes_collection, phase, msgs, db, handlers,
           clicks, cast, last >>

\* a coroutine slot that holds no call
Idle ==
    [ pc |-> "idle", uid |-> "", mid |-> 0, data |-> "", user_name |-> "",
      text |-> "", current_votes |-> <<>>, member |-> "", new_text |-> "",
      answers |-> <<>>, edits |-> <<>>, edited |-> "" ]

\* the slot is free for the next callback query
Free(h) == handlers[h].pc = "idle"

\* the value of last: NoCall after a step that completes no handler call,
\* else the completed handle_vote call (its locals, the answers and edit
\* requests it issued), the cmd_top reply, or what add_rating_buttons
\* logged or sent
NoCall == [handler |-> "none", call |-> Idle, reply |-> "", top_5 |-> <<>>]
VoteCall(c) == [NoCall EXCEPT !.handler = "handle_vote", !.call = c]
TopCall(text, top_5) == [NoCall EXCEPT !.handler = "cmd_top", !.reply = text, !.top_5 = top_5]
IntakeCall(what) == [NoCall EXCEPT !.handler = "add_rating_buttons", !.reply = what]

\* the document without the chat_id of the query's message
SynthesizedPostNoChat(id, chat_id) ==
    [id |-> id, chat_id |-> "", title |-> <<>>, votes |-> <<>>]

\* the document handle_vote inserts for a missing _id (it has no title)
SynthesizedPost(id, chat_id) ==
    [id |-> id, chat_id |-> chat_id, title |-> <<>>, votes |-> <<>>]

\* the document add_rating_buttons inserts
InitialData(id, chat_id, short_title) ==
    [id |-> id, chat_id |-> chat_id, title |-> <<short_title>>, votes |-> <<>>]

\* the _id values of the collection, a sequence of documents in natural order
Ids(coll) == { coll[i].id : i \in 1..Len(coll) }

\* find_one({'_id': id}) for an id that is present
FindOne(coll, id) == coll[CHOOSE i \in 1..Len(coll) : coll[i].id = id]

\* an upsert that replaces the document of an _id that exists
InsertOneOverwrite(coll, doc) ==
    IF doc.id \in Ids(coll)
    THEN [ i \in 1..Len(coll) |-> IF coll[i].id = doc.id THEN doc ELSE coll[i] ]
    ELSE Append(coll, doc)

\* insert_one: DuplicateKeyError (collection unchanged) when the _id exists
InsertOne(coll, doc) == IF doc.id \in Ids(coll) THEN coll ELSE Append(coll, doc)

\* a $set of the whole votes field in place of the voter's field
UpdateOneWholeVotes(coll, id, uid, score, name) ==
    [ i \in 1..Len(coll) |->
        IF coll[i].id = id
        THEN [coll[i] EXCEPT !.votes = <<[uid |-> uid, score |-> score, name |-> name]>>]
        ELSE coll[i] ]

\* update_one({'_id': id}, {'$set': {votes.<uid>: ...}}): no match, no change
UpdateOne(coll, id, uid, score, name) ==
    [ i \in 1..Len(coll) |->
        IF coll[i].id = id
        THEN [coll[i] EXCEPT !.votes = SetVote(@, uid, score, name)]
        ELSE coll[i] ]

\* module startup: configuration and the database connection.  The channel
\* is empty, or holds a post with the panel and the document that an earlier
\* run of the bot has left (the collection outlives the process, also when
\* this run cannot reach it)
Init ==
    /\ BOT_TOKEN \in BOOLEAN
    /\ MONGO_URI \in BOOLEAN
    /\ votes_collection \in (IF MONGO_URI THEN {"post_votes", "None"} ELSE {"None"})
    /\ phase = "startup"
    /\ \/ msgs = <<>> /\ db = <<>>
       \/ \E text \in PostTexts :
             /\ msgs = << [kind |-> "post", text |-> text, reply_to |-> 0],
                          [kind |-> "panel", text |-> ParseMarkdown(InitialPanelText),
                           reply_to |-> 1] >>
             /\ db = << InitialData(1, ChatId, ShortTitle(text)) >>
    /\ handlers = [h \in Slots |-> Idle]
    /\ clicks = 0
    /\ cast = <<>>
    /\ last = NoCall

\* __main__: exit(1) without BOT_TOKEN, else run_polling()
Main ==
    /\ phase = "startup"
    /\ phase' = IF BOT_TOKEN THEN "polling" ELSE "exited"
    /\ last' = NoCall
    /\ UNCHANGED << BOT_TOKEN, MONGO_URI, votes_collection, msgs, db, handlers,
                    clicks, cast >>

\* somebody posts to the channel; Telegram numbers the message
ChannelPost(text) ==
    /\ phase = "polling"
    /\ Len(msgs) + clicks < MaxActs
    /\ msgs' = Append(msgs, [kind |-> "post", text |-> text, reply_to |-> 0])
    /\ last' = NoCall
    /\ UNCHANGED << BOT_TOKEN, MONGO_URI, votes_collection, phase, db, handlers,
                    clicks, cast >>

\* add_rating_buttons for the channel post m (a first or a repeated
\* delivery); sent tells whether send_message succeeds
AddRatingButtons(m, sent) ==
    /\ phase = "polling"
    /\ m \in 1..Len(msgs)
    /\ msgs[m].kind = "post"
    /\ sent => Len(msgs) + clicks < MaxActs
    /\ IF votes_collection = "None"
       THEN /\ last' = IntakeCall("Cannot save post: Database not connected.")
            /\ UNCHANGED << db, msgs >>
       ELSE /\ db' = InsertOne(db, InitialData(m, ChatId, ShortTitle(msgs[m].text)))
            /\ IF sent
               THEN /\ msgs' = Append(msgs, [kind |-> "panel",
                                             text |-> ParseMarkdown(InitialPanelText),
                                             reply_to |-> m])
                    /\ last' = IntakeCall(InitialPanelText)
               ELSE /\ msgs' = msgs
                    /\ last' = IntakeCall("Error sending rating buttons")
    /\ UNCHANGED << BOT_TOKEN, MONGO_URI, votes_collection, phase, handlers,
                    clicks, cast >>

\* handle_vote with the replace request of a rating issued before the
\* confirmation: after the update the text is rendered and edit_message_text
\* called, query.answer being left for later
HandleVoteRenderFirst(h, uid, profile, m, data) ==
    /\ phase = "polling"
    /\ Len(msgs) + clicks < MaxActs
    /\ Free(h)
    /\ h = "h2" => ~Free("h1")
    /\ m \in 1..Len(msgs)
    /\ msgs[m].kind = "panel"
    /\ clicks' = clicks + 1
    /\ LET call == [Idle EXCEPT !.uid = uid, !.mid = m, !.data = data,
                                !.text = msgs[m].text]
       IN
       IF votes_collection = "None"
       THEN /\ last' = VoteCall([call EXCEPT !.pc = "done", !.answers = <<DbErrorText>>])
            /\ UNCHANGED << db, cast, handlers >>
       ELSE LET found == InsertOne(db, SynthesizedPost(m, ChatId))
                current_votes == FindOne(found, m).votes
            IN
            IF data = "check_voters"
            THEN /\ db' = found
                 /\ handlers' = [handlers EXCEPT ![h] =
                        [call EXCEPT !.pc = "get_chat_member",
                                     !.current_votes = current_votes]]
                 /\ last' = NoCall
                 /\ UNCHANGED cast
            ELSE LET new_score == ParseInt(data)
                     user_name == UserName(profile)
                 IN
                 /\ db' = UpdateOne(found, m, uid, new_score, user_name)
                 /\ cast' = (<<m, uid>> :> [score |-> new_score, name |-> user_name])
                                @@ cast
                 /\ handlers' = [handlers EXCEPT ![h] =
                        [call EXCEPT !.pc = "edit_message_text",
                                     !.user_name = user_name,
                                     !.new_text = PanelText(FindOne(db', m).votes),
                                     !.edits = <<PanelText(FindOne(db', m).votes)>>]]
                 /\ last' = NoCall
    /\ UNCHANGED << BOT_TOKEN, MONGO_URI, votes_collection, phase, msgs >>

\* handle_vote up to its first await: the lookup, and for a rating the
\* update and the call of query.answer
HandleVote(h, uid, profile, m, data) ==
    /\ phase = "polling"
    /\ Len(msgs) + clicks < MaxActs
    /\ Free(h)
    /\ h = "h2" => ~Free("h1")
    /\ m \in 1..Len(msgs)
    /\ msgs[m].kind = "panel"
    /\ clicks' = clicks + 1
    /\ LET call == [Idle EXCEPT !.uid = uid, !.mid = m, !.data = data,
                                !.text = msgs[m].text]
       IN
       IF votes_collection = "None"
       THEN /\ last' = VoteCall([call EXCEPT !.pc = "done", !.answers = <<DbErrorText>>])
            /\ UNCHANGED << db, cast, handlers >>
       ELSE LET found == InsertOne(db, SynthesizedPost(m, ChatId))
                current_votes == FindOne(found, m).votes
            IN
            IF data = "check_voters"
            THEN /\ db' = found
                 /\ handlers' = [handlers EXCEPT ![h] =
                        [call EXCEPT !.pc = "get_chat_member",
                                     !.current_votes = current_votes]]
                 /\ last' = NoCall
                 /\ UNCHANGED cast
            ELSE LET new_score == ParseInt(data)
                     user_name == UserName(profile)
                 IN
                 /\ db' = UpdateOne(found, m, uid, new_score, user_name)
                 /\ cast' = (<<m, uid>> :> [score |-> new_score, name |-> user_name])
                                @@ cast
                 /\ handlers' = [handlers EXCEPT ![h] =
                        [call EXCEPT !.pc = "answer",
                                     !.user_name = user_name,
                                     !.answers = <<RatedText(new_score)>>]]
                 /\ last' = NoCall
    /\ UNCHANGED << BOT_TOKEN, MONGO_URI, votes_collection, phase, msgs >>

\* the "check_voters" path with a bare return where nobody has voted
CheckVotersSilentEmpty(c, res) ==
    LET is_admin == res \in {"creator", "administrator"}
    IN  [c EXCEPT !.pc = "done", !.member = res,
                  !.answers = IF c.current_votes = <<>> /\ is_admin THEN <<>>
                              ELSE <<DisclosureAnswer(c.current_votes, c.uid, is_admin)>>]

\* the "check_voters" path with a failed lookup taken for an administrator's
CheckVotersErrorAdmin(c, res) ==
    LET is_admin == res \in {"creator", "administrator", "error"}
    IN  [c EXCEPT !.pc = "done", !.member = res,
                  !.answers = <<DisclosureAnswer(c.current_votes, c.uid, is_admin)>>]

\* the "check_voters" path that also requests the panel text to be replaced
CheckVotersRerender(c, res) ==
    LET is_admin == res \in {"creator", "administrator"}
    IN  [c EXCEPT !.pc = "done", !.member = res,
                  !.answers = <<DisclosureAnswer(c.current_votes, c.uid, is_admin)>>,
                  !.edits = <<PanelText(c.current_votes)>>]

\* the "check_voters" path of the call c after get_chat_member gave res:
\* the call as it ends, with the answer it issued
CheckVoters(c, res) ==
    LET is_admin == res \in {"creator", "administrator"}
    IN  [c EXCEPT !.pc = "done", !.member = res,
                  !.answers = <<DisclosureAnswer(c.current_votes, c.uid, is_admin)>>]

\* get_chat_member returns (or raises): the rest of the "check_voters" path
MemberReturns(h, res) ==
    /\ handlers[h].pc = "get_chat_member"
    /\ last' = VoteCall(CheckVoters(handlers[h], res))
    /\ handlers' = [handlers EXCEPT ![h] = Idle]
    /\ UNCHANGED << BOT_TOKEN, MONGO_URI, votes_collection, phase, msgs, db,
                    clicks, cast >>

\* query.answer returns: the votes are read again and the panel text is
\* rendered and compared with query.message.text
AnswerReturns(h) ==
    /\ handlers[h].pc = "answer"
    /\ LET c == handlers[h]
           updated_votes == FindOne(db, c.mid).votes
           new_text == PanelText(updated_votes)
       IN  IF new_text # c.text
           THEN /\ handlers' = [handlers EXCEPT ![h] =
                       [c EXCEPT !.pc = "edit_message_text", !.new_text = new_text,
                                 !.edits = <<new_text>>]]
                /\ last' = NoCall
           ELSE /\ handlers' = [handlers EXCEPT ![h] = Idle]
                /\ last' = VoteCall([c EXCEPT !.pc = "done", !.new_text = new_text])
    /\ UNCHANGED << BOT_TOKEN, MONGO_URI, votes_collection, phase, msgs, db,
                    clicks, cast >>

\* Telegram answers editMessageText: it refuses an edit that changes
\* nothing ("message is not modified", a BadRequest)
EditReturns(h, res) ==
    /\ handlers[h].pc = "edit_message_text"
    /\ LET c == handlers[h]
           shown == ParseMarkdown(c.new_text)
       IN  /\ shown = msgs[c.mid].text => res # "ok"
           /\ msgs' = IF res = "ok" THEN [msgs EXCEPT ![c.mid].text = shown] ELSE msgs
           /\ handlers' = [handlers EXCEPT ![h] = Idle]
           /\ last' = VoteCall([c EXCEPT !.edited = res,
                                         !.pc = IF res = "NetworkError" THEN "raised"
                                                ELSE "done"])
    /\ UNCHANGED << BOT_TOKEN, MONGO_URI, votes_collection, phase, db, clicks,
                    cast >>

(***************************************************************************)
(* The leaderboard.                                                         *)
(***************************************************************************)
\* the key with the vote count first: (x['count'], x['avg'])
KeyLessCountFirst(a, b) ==
    \/ a.count < b.count
    \/ /\ a.count = b.count
       /\ a.total * b.count < b.total * a.count

\* (x['avg'], x['count']) of a is smaller than that of b; avg = total/count
KeyLess(a, b) ==
    \/ a.total * b.count < b.total * a.count
    \/ /\ a.total * b.count = b.total * a.count
       /\ a.count < b.count

\* x put into the descending list after every element that is not smaller
InsertDesc(sorted, x) ==
    LET smaller == { i \in 1..Len(sorted) : KeyLess(sorted[i], x) }
        k == IF smaller = {} THEN Len(sorted) + 1
             ELSE CHOOSE i \in smaller : \A j \in smaller : i <= j
    IN  SubSeq(sorted, 1, k - 1) \o <<x>> \o SubSeq(sorted, k, Len(sorted))

RECURSIVE SortDesc(_)
\* ranked_posts.sort(key=(avg, count), reverse=True): stable
SortDesc(posts) ==
    IF posts = <<>> THEN <<>>
    ELSE InsertDesc(SortDesc(SubSeq(posts, 1, Len(posts) - 1)), posts[Len(posts)])

\* the entry cmd_top makes of a document
RankedPost(post) ==
    [ total |-> SumScores(post.votes),
      count |-> Len(post.votes),
      title |-> IF post.title = <<>> THEN "Unknown Post" ELSE post.title[1],
      link  |-> "https://t.me/c/" \o Remove(post.chat_id, "-100") \o "/"
                    \o ToString(post.id) ]

RECURSIVE RankedPosts(_)
\* the entries of the documents that have votes, in the order of find()
RankedPosts(all_posts) ==
    IF all_posts = <<>> THEN <<>>
    ELSE IF Head(all_posts).votes = <<>> THEN RankedPosts(Tail(all_posts))
    ELSE <<RankedPost(Head(all_posts))>> \o RankedPosts(Tail(all_posts))

\* top_5 = ranked_posts[:5] after the sort
Top5(all_posts) ==
    LET ranked_posts == SortDesc(RankedPosts(all_posts))
    IN  SubSeq(ranked_posts, 1, IF Len(ranked_posts) < TopN THEN Len(ranked_posts) ELSE TopN)

\* the message cmd_top builds of top_5
TopText(top_5) ==
    Join(<<"^ **Top Rated Posts** ^\n">> \o
         [ i \in 1..Len(top_5) |->
             ToString(i) \o ". [" \o top_5[i].title \o "](" \o top_5[i].link \o ")\n"
                 \o "   ~ **" \o Format1f(top_5[i].total, top_5[i].count)
                 \o "/10** (" \o ToString(top_5[i].count) \o " votes)" ],
         "\n\n")

\* cmd_top: the reply to /top
CmdTop ==
    /\ phase = "polling"
    /\ last' =
         IF votes_collection = "None"
         THEN TopCall(TopDbErrorText, <<>>)
         ELSE LET top_5 == Top5(db)
              IN  IF top_5 = <<>>
                  THEN TopCall(NoRatedPostsText, <<>>)
                  ELSE TopCall(TopText(top_5), top_5)
    /\ UNCHANGED << BOT_TOKEN, MONGO_URI, votes_collection, phase, msgs, db,
                    handlers, clicks, cast >>

(***************************************************************************)
(* The system.                                                              *)
(***************************************************************************)
Next ==
    \/ Main
    \/ \E text \in PostTexts : ChannelPost(text)
    \/ \E m \in 1..MaxActs, sent \in BOOLEAN : AddRatingButtons(m, sent)
    \/ \E h \in Slots, uid \in Users, m \in 1..MaxActs, data \in PayloadInputs :
         \E profile \in Profiles[uid] : HandleVote(h, uid, profile, m, data)
    \/ \E h \in Slots, res \in MemberResults : MemberReturns(h, res)
    \/ \E h \in Slots : AnswerReturns(h)
    \/ \E h \in Slots, res \in EditResults : EditReturns(h, res)
    \/ CmdTop

Spec == Init /\ [][Next]_vars

(***************************************************************************)
(* One click on a panel whose post already has votes.  The ledger is drawn   *)
(* from the ledgers earlier clicks can have left: the document of panel 2    *)
(* holds the votes of up to MaxDrawn earlier voters, with any scores of the  *)
(* keyboard, and the panel shows the text rendered of them.                  *)
(***************************************************************************)
\* number of earlier voters of the drawn ledger
MaxDrawn == 2
\* the earlier voters, in the order they voted
Earlier == SubSeq(<<"502", "503", "504", "505">>, 1, MaxDrawn)
\* the names the earlier voters voted under
EarlierNames(uid) ==
    IF uid \in Users THEN { UserName(p) : p \in Profiles[uid] }
    ELSE IF uid = "503" THEN {"Cy", "Cyprian-Augustinus-Ferdinand " \o LongLast}
    ELSE {"Di"}

RECURSIVE DrawnVotes(_)
\* the votes documents of the earlier voters numbered k and above
DrawnVotes(k) ==
    IF k > Len(Earlier) THEN { <<>> }
    ELSE LET rest == DrawnVotes(k + 1)
         IN  rest \cup
             { <<[uid |-> Earlier[k], score |-> sc, name |-> nm]>> \o r :
                 sc \in 1..10, nm \in EarlierNames(Earlier[k]), r \in rest }

\* cast for a votes document of message m
CastOf(m, votes) ==
    [ key \in { <<m, votes[i].uid>> : i \in 1..Len(votes) } |->
        LET v == FindOneVote(votes, key[2])
        IN  [score |-> v.score, name |-> v.name] ]

InitClick ==
    /\ BOT_TOKEN = TRUE
    /\ MONGO_URI = TRUE
    /\ votes_collection = "post_votes"
    /\ phase = "polling"
    /\ \E text \in PostTexts, votes \in DrawnVotes(1) :
         /\ msgs = << [kind |-> "post", text |-> text, reply_to |-> 0],
                      [kind |-> "panel",
                       text |-> ParseMarkdown(IF votes = <<>> THEN InitialPanelText
                                              ELSE PanelText(votes)),
                       reply_to |-> 1] >>
         /\ db = << InitialData(1, ChatId, ShortTitle(text)) >>
                   \o (IF votes = <<>> THEN <<>>
                       ELSE << [SynthesizedPost(2, ChatId) EXCEPT !.votes = votes] >>)
         /\ cast = CastOf(2, votes)
    /\ handlers = [h \in Slots |-> Idle]
    /\ clicks = MaxActs - 3
    /\ last = NoCall

\* callback_data of the click: a button of the keyboard, or a number that no
\* button of get_keyboard() carries
ClickData == KeyboardData \cup {"0", "11"}

NextClick ==
    \/ \E h \in Slots, uid \in Users, m \in 1..2, data \in ClickData :
         \E profile \in Profiles[uid] : HandleVote(h, uid, profile, m, data)
    \/ \E h \in Slots, res \in MemberResults : MemberReturns(h, res)
    \/ \E h \in Slots : AnswerReturns(h)
    \/ \E h \in Slots, res \in EditResults : EditReturns(h, res)

SpecClick == InitClick /\ [][NextClick]_vars

(***************************************************************************)
(* /top on a ledger of several rated posts.  The ledger is drawn from the    *)
(* ledgers clicks on TopPosts panels can have left: post 2k-1 has panel 2k,  *)
(* whose document holds no vote, one vote or two.                            *)
(***************************************************************************)
\* number of posts (each with its panel) of the drawn ledger
TopPosts == 6

\* the votes a panel's document may hold
TopVotes ==
    LET v(uid, sc) == [uid |-> uid, score |-> sc, name |-> IF uid = "502" THEN "Bo" ELSE "Cy"]
    IN  { <<>>, <<v("502", 3)>>, <<v("502", 2)>>,
          <<v("502", 3), v("503", 3)>>, <<v("502", 2), v("503", 3)>> }

RECURSIVE DrawnLedgers(_)
\* the collections of the posts numbered k and above, with their panels
DrawnLedgers(k) ==
    IF k > TopPosts THEN { <<>> }
    ELSE { << InitialData(2 * k - 1, ChatId, "Media Post"),
              [SynthesizedPost(2 * k, ChatId) EXCEPT !.votes = votes] >> \o rest :
             votes \in TopVotes, rest \in DrawnLedgers(k + 1) }

RECURSIVE CastOfAll(_)
\* cast for a collection
CastOfAll(coll) ==
    IF coll = <<>> THEN <<>>
    ELSE CastOf(Head(coll).id, Head(coll).votes) @@ CastOfAll(Tail(coll))

InitTop ==
    /\ BOT_TOKEN = TRUE
    /\ MONGO_URI = TRUE
    /\ votes_collection = "post_votes"
    /\ phase = "polling"
    /\ \E ledger \in DrawnLedgers(1) :
         /\ db = ledger
         /\ cast = CastOfAll(ledger)
         /\ msgs = [ m \in 1..(2 * TopPosts) |->
                      IF m % 2 = 1
                      THEN [kind |-> "post", text |-> "", reply_to |-> 0]
                      ELSE [kind |-> "panel",
                            text |-> ParseMarkdown(IF ledger[m].votes = <<>>
                                                   THEN InitialPanelText
                                                   ELSE PanelText(ledger[m].votes)),
                            reply_to |-> m - 1] ]
    /\ handlers = [h \in Slots |-> Idle]
    /\ clicks = MaxActs
    /\ last = NoCall

NextTop == CmdTop

SpecTop == InitTop /\ [][NextTop]_vars

(***************************************************************************)
(* Post intake on a ledger that may already hold a document under the        *)
(* post's message id.  The _id of a document is the message id alone, so the *)
(* document may be the one an earlier delivery of the same post left, or one *)
(* that clicks on a panel of another channel, with the same message id, have *)
(* left: synthesized, with that channel's chat_id, without title, with votes.*)
(***************************************************************************)
\* another channel the bot serves
OtherChatId == "-100456"

\* the documents the collection may hold under the message id of post 1
DrawnRecords(text) ==
    { <<>>, << InitialData(1, ChatId, ShortTitle(text)) >> }
      \cup { << [SynthesizedPost(1, OtherChatId) EXCEPT !.votes = votes] >> :
               votes \in TopVotes \ { <<>> } }

InitIntake ==
    /\ BOT_TOKEN = TRUE
    /\ MONGO_URI = TRUE
    /\ votes_collection = "post_votes"
    /\ phase = "polling"
    /\ \E text \in PostTexts :
         /\ msgs = << [kind |-> "post", text |-> text, reply_to |-> 0] >>
         /\ \E coll \in DrawnRecords(text) :
              /\ db = coll
              /\ cast = CastOfAll(coll)
    /\ handlers = [h \in Slots |-> Idle]
    /\ clicks = 0
    /\ last = NoCall

NextIntake ==
    \/ \E text \in PostTexts : ChannelPost(text)
    \/ \E m \in 1..MaxActs, sent \in BOOLEAN : AddRatingButtons(m, sent)

SpecIntake == InitIntake /\ [][NextIntake]_vars

(***************************************************************************)
(* Properties.                                                              *)
(***************************************************************************)
StartsWith(s, prefix) == Len(s) >= Len(prefix) /\ SubSeq(s, 1, Len(prefix)) = prefix
EndsWith(s, suffix) ==
    Len(s) >= Len(suffix) /\ SubSeq(s, Len(s) - Len(suffix) + 1, Len(s)) = suffix
Contains(s, sub) ==
    \E i \in 1..(Len(s) - Len(sub) + 1) : SubSeq(s, i, i + Len(sub) - 1) = sub

\* the users whose vote events on message m have been handled
VotersOf(m) == { key[2] : key \in { k \in DOMAIN cast : k[1] = m } }
\* the link of the leaderboard to message m of the channel
LinkTo(m) == "https://t.me/c/123/" \o ToString(m)
\* the rating call in slot h is past its update of the ledger
Rated(h) == handlers[h].pc \in {"answer", "edit_message_text"}

\* C1 (ledger part): in every state each votes mapping has at most one entry
\* per voter, the entry of a voter carries the score and the name of that
\* voter's most recent vote event, every voter whose vote was handled has an
\* entry, and the vote count of a leaderboard entry is the number of distinct
\* voters of its post.
C1_Ledger ==
    /\ \A i \in 1..Len(db) :
         LET votes == db[i].votes
         IN  /\ \A j, k \in 1..Len(votes) : votes[j].uid = votes[k].uid => j = k
             /\ \A j \in 1..Len(votes) :
                  /\ <<db[i].id, votes[j].uid>> \in DOMAIN cast
                  /\ cast[<<db[i].id, votes[j].uid>>] =
                        [score |-> votes[j].score, name |-> votes[j].name]
    /\ \A key \in DOMAIN cast :
         /\ key[1] \in Ids(db)
         /\ HasVoted(FindOne(db, key[1]).votes, key[2])
    /\ last.handler = "cmd_top" =>
         \A e \in 1..Len(last.top_5) :
            \E i \in 1..Len(db) :
               /\ last.top_5[e].link = LinkTo(db[i].id)
               /\ last.top_5[e].count = Cardinality(VotersOf(db[i].id))

\* C1 (panel part): the step that renders the panel text after a vote writes
\* into it the number of distinct voters of the post.
C1_Render ==
    \A h \in Slots :
       (handlers[h].pc = "answer" /\ handlers'[h].pc # "answer") =>
          LET new_text == IF handlers'[h].pc = "edit_message_text"
                          THEN handlers'[h].new_text
                          ELSE last'.call.new_text
          IN  EndsWith(new_text,
                       "\n(" \o ToString(Cardinality(VotersOf(handlers[h].mid))) \o " votes)")

\* C1: for every sequence of vote events on a post, the votes mapping holds at
\* most one entry per voter, which carries the score and display name of the
\* voter's most recent vote, and the count shown on the panel and used by the
\* leaderboard is the number of distinct voters, not of vote events.
C1_OneVotePerVoter == []C1_Ledger /\ [][C1_Render]_vars

\* C1 witness: the same voter has voted twice on panel 2, first 2 then 3; both
\* calls are past their update and the mapping holds one entry, with score 3.
C1_Witness ==
    /\ handlers["h1"].pc = "answer" /\ handlers["h2"].pc = "edit_message_text"
    /\ handlers["h1"].uid = "501" /\ handlers["h2"].uid = "501"
    /\ handlers["h1"].mid = 2 /\ handlers["h2"].mid = 2
    /\ handlers["h1"].data = "2" /\ handlers["h2"].data = "3"
    /\ handlers["h1"].user_name # handlers["h2"].user_name
    /\ 2 \in Ids(db)
    /\ Len(FindOne(db, 2).votes) = 1
    /\ FindOne(db, 2).votes[1].score = 3
    /\ FindOne(db, 2).votes[1].name = handlers["h2"].user_name
    /\ EndsWith(handlers["h2"].new_text, "\n(1 votes)")

\* C2: every vote cast through the panel of an intaken post is stored in the
\* record Post Intake created for that post (keyed by the post's message id,
\* with the intake title), no record is synthesized for it, and a leaderboard
\* entry shows an intake title and links to the post.
C2_VotesInIntakeRecord ==
    /\ \A key \in DOMAIN cast :
         LET post_id == msgs[key[1]].reply_to
         IN  /\ post_id \in Ids(db)
             /\ HasVoted(FindOne(db, post_id).votes, key[2])
             /\ FindOne(db, post_id).title = <<ShortTitle(msgs[post_id].text)>>
    /\ \A i \in 1..Len(db) : db[i].votes # <<>> => db[i].title # <<>>
    /\ last.handler = "cmd_top" =>
         \A e \in 1..Len(last.top_5) :
            \E m \in 1..Len(msgs) :
               /\ msgs[m].kind = "post"
               /\ last.top_5[e].link = LinkTo(m)
               /\ last.top_5[e].title = ShortTitle(msgs[m].text)

\* C3: every score stored in a votes mapping is an integer in 1..10, also after
\* an action event whose numeric payload is outside 1..10.
C3_ScoresInRange ==
    \A i \in 1..Len(db) :
       \A j \in 1..Len(db[i].votes) : db[i].votes[j].score \in 1..10

\* a disclosure request has just completed on the connected store
Disclosed ==
    /\ last.handler = "handle_vote"
    /\ last.call.data = "check_voters"
    /\ votes_collection # "None"
\* get_chat_member reported an administrator
AdminStatus(res) == res \in {"creator", "administrator"}
\* the alert text was cut to the limit
Truncated(ans) == Len(ans) = AlertKeep + 3 /\ EndsWith(ans, "...")
\* ans is the list of the voters' names, without scores
NamesOnly(ans, votes) ==
    /\ StartsWith(ans, "@ Voters (" \o ToString(Len(votes)) \o "):\n")
    /\ ~Contains(ans, ": ")
    /\ Truncated(ans) \/ \A i \in 1..Len(votes) : Contains(ans, "\n+ " \o votes[i].name)
\* ans is the list of the voters' names, each with its score
NamesAndScores(ans, votes) ==
    /\ StartsWith(ans, "& Admin View (" \o ToString(Len(votes)) \o " votes):\n")
    /\ Truncated(ans) \/
         \A i \in 1..Len(votes) :
            Contains(ans \o "\n", "\n+ " \o votes[i].name \o ": "
                                    \o ToString(votes[i].score) \o "\n")

\* C4: a disclosure request whose membership lookup returned a status is
\* answered once, by the post's votes as they are: neither admin nor voter ->
\* the "vote first" denial (also with zero voters); non-admin voter -> the
\* names-only list; admin -> names with scores, voter or not, and the "no one
\* has voted" answer only when the post has no voter.
C4_DisclosureAccess ==
    (Disclosed /\ last.call.member # "error") =>
        LET c == last.call
            votes == FindOne(db, c.mid).votes
            ans == c.answers[1]
        IN  /\ Len(c.answers) = 1
            /\ (~AdminStatus(c.member) /\ c.uid \notin VoteKeys(votes)) => ans = DeniedText
            /\ (~AdminStatus(c.member) /\ c.uid \in VoteKeys(votes)) => NamesOnly(ans, votes)
            /\ (AdminStatus(c.member) /\ votes = <<>>) => ans = EmptyText
            /\ (AdminStatus(c.member) /\ votes # <<>>) => NamesAndScores(ans, votes)

\* C4 witness: an administrator who has not voted has asked for the voters of
\* a post with two voters and got the names with the scores.
C4_Witness ==
    /\ Disclosed
    /\ last.call.member = "administrator"
    /\ last.call.uid = "501"
    /\ VoteKeys(FindOne(db, last.call.mid).votes) = {"502", "503"}
    /\ StartsWith(last.call.answers[1], "& Admin View (2 votes):\n+ ")
    /\ ~Truncated(last.call.answers[1])

\* the votes with every score replaced by sc
Rescored(votes, sc) == [ i \in 1..Len(votes) |-> [votes[i] EXCEPT !.score = sc] ]

\* C5: the answer to a non-admin's disclosure request is the answer the same
\* request gets on the ledger with the same voters and names and any other
\* scores: it is the answer for every score put in the place of all scores
\* (the ledgers reached hold every combination of scores).
C5_NonAdminScoreBlind ==
    (Disclosed /\ ~AdminStatus(last.call.member)) =>
        \A sc \in 1..10 :
           last.call.answers =
              << DisclosureAnswer(Rescored(FindOne(db, last.call.mid).votes, sc),
                                  last.call.uid, FALSE) >>

\* C5 witness: a voter who is no admin got the list of the two voters, whose
\* scores differ.
C5_Witness ==
    /\ Disclosed
    /\ last.call.member = "member"
    /\ last.call.uid = "502"
    /\ LET votes == FindOne(db, last.call.mid).votes
       IN  /\ Len(votes) = 2
           /\ votes[1].score # votes[2].score
    /\ StartsWith(last.call.answers[1], "@ Voters (2):")

\* round half up of total/n
RoundHalfUp(total, n) == (2 * total + n) \div (2 * n)

\* C6: when the stored scores are in 1..10, the panel text rendered after a
\* vote has as many filled glyphs as the average rounded half up, then 10
\* minus that many empty glyphs, and shows the number of votes.
C6_BarRoundsHalfUp ==
    \A h \in Slots :
       handlers[h].pc = "edit_message_text" =>
          LET votes == FindOne(db, handlers[h].mid).votes
              filled == RoundHalfUp(SumScores(votes), Len(votes))
          IN  (\A i \in 1..Len(votes) : votes[i].score \in 1..10) =>
                 Contains(handlers[h].new_text,
                          "\n" \o Rep("#", filled) \o Rep("-", 10 - filled)
                              \o "\n(" \o ToString(Len(votes)) \o " votes)")

\* the documents that have a vote
RatedDocs == { i \in 1..Len(db) : db[i].votes # <<>> }
\* the average of a is higher than that of b (averages are total/count)
HigherAvg(a, b) == a.total * b.count > b.total * a.count
\* a may stand before b on the leaderboard
RanksBefore(a, b) ==
    /\ ~HigherAvg(b, a)
    /\ (~HigherAvg(a, b)) => a.count >= b.count
\* what the leaderboard says of document i
Standing(i) == [total |-> SumScores(db[i].votes), count |-> Len(db[i].votes)]

\* C7: the reply to /top lists only posts that have a vote, each once, the 5
\* of highest rank when there are more; the list is ordered by average
\* descending and among equal averages by vote count descending, and no post
\* left out ranks above a listed one; when no post has a vote the reply is
\* the fixed "no rated posts" message.
C7_Leaderboard ==
    (last.handler = "cmd_top" /\ votes_collection # "None") =>
        LET t == last.top_5
        IN  IF RatedDocs = {}
            THEN last.reply = NoRatedPostsText /\ t = <<>>
            ELSE /\ StartsWith(last.reply, "^ **Top Rated Posts** ^\n\n\n1. [")
                 /\ Len(t) = (IF Cardinality(RatedDocs) < 5 THEN Cardinality(RatedDocs) ELSE 5)
                 /\ \A e \in 1..Len(t) :
                      \E i \in RatedDocs :
                         /\ t[e].link = LinkTo(db[i].id)
                         /\ t[e].total = Standing(i).total
                         /\ t[e].count = Standing(i).count
                 /\ \A e, f \in 1..Len(t) :
                      /\ e # f => t[e].link # t[f].link
                      /\ e < f => RanksBefore(t[e], t[f])
                 /\ \A i \in RatedDocs :
                      (\A e \in 1..Len(t) : t[e].link # LinkTo(db[i].id)) =>
                          \A e \in 1..Len(t) : RanksBefore(t[e], Standing(i))

\* C7 witness: six posts have votes, /top lists five, and a post with one
\* vote of 3 stands before a post with two votes of average 2.5.
C7_Witness ==
    /\ last.handler = "cmd_top"
    /\ Cardinality(RatedDocs) = 6
    /\ Len(last.top_5) = 5
    /\ \E e \in 1..4 :
         /\ last.top_5[e].count = 1 /\ last.top_5[e].total = 3
         /\ last.top_5[e + 1].count = 2 /\ last.top_5[e + 1].total = 5

\* C8: a vote handler whose rendered panel text is identical to the text the
\* panel displays (the text of query.message) issues no replace request.
C8_NoReplaceWhenUnchanged ==
    \A h \in Slots :
       handlers[h].pc = "edit_message_text" =>
          ParseMarkdown(handlers[h].new_text) # handlers[h].text

\* ans is one of the answers of the "check_voters" path
DisclosureKind(ans) ==
    \/ ans = DeniedText
    \/ ans = EmptyText
    \/ StartsWith(ans, "@ Voters (")
    \/ StartsWith(ans, "& Admin View (")

C10_NoLostVote ==
    \A m \in Ids(db) :
       \A u1, u2 \in Users :
          (u1 # u2 /\ <<m, u1>> \in DOMAIN cast /\ <<m, u2>> \in DOMAIN cast) =>
             LET votes == FindOne(db, m).votes
             IN  /\ {u1, u2} \subseteq VoteKeys(votes)
                 /\ FindOneVote(votes, u1).score = cast[<<m, u1>>].score
                 /\ FindOneVote(votes, u2).score = cast[<<m, u2>>].score

\* C10 witness: the handlers of two voters' votes on panel 2 are suspended at
\* the same time, and the mapping holds the 2 of the one and the 3 of the other.
C10_Witness ==
    /\ Rated("h1") /\ Rated("h2")
    /\ handlers["h1"].mid = 2 /\ handlers["h2"].mid = 2
    /\ handlers["h1"].uid = "501" /\ handlers["h2"].uid = "502"
    /\ handlers["h1"].data = "2" /\ handlers["h2"].data = "3"
    /\ 2 \in Ids(db)
    /\ LET votes == FindOne(db, 2).votes
       IN  /\ Len(votes) = 2
           /\ FindOneVote(votes, "501").score = 2
           /\ FindOneVote(votes, "502").score = 3

\* the channel posts whose message id has no document
Unrecorded == { m \in 1..Len(msgs) : msgs[m].kind = "post" /\ m \notin Ids(db) }

\* C11: a step of post intake does not raise (it ends having sent the panel or
\* logged the failure to send it), leaves every document the collection holds
\* exactly as it is (votes, title, chat_id), and adds at most the fresh
\* document of a post that had none; so an intake of a post that has a
\* document leaves the collection as it is, and no _id ever has two documents.
C11_IntakeStep ==
    (last'.handler = "add_rating_buttons" /\ votes_collection # "None") =>
        /\ last'.reply \in {InitialPanelText, "Error sending rating buttons"}
        /\ Len(db') >= Len(db)
        /\ \A i \in 1..Len(db) : db'[i] = db[i]
        /\ \/ db' = db
           \/ \E m \in Unrecorded :
                 db' = Append(db, InitialData(m, ChatId, ShortTitle(msgs[m].text)))
        /\ \A i, j \in 1..Len(db') : db'[i].id = db'[j].id => i = j
C11_IdempotentIntake == [][C11_IntakeStep]_vars

\* C11 witness: post intake has run for post 1, whose message id already had
\* a document with two votes; the panel was sent and the document is as it was.
C11_Witness ==
    /\ last.handler = "add_rating_buttons"
    /\ last.reply = InitialPanelText
    /\ Len(msgs) = 2 /\ msgs[2].reply_to = 1
    /\ Len(db) = 1
    /\ db[1].id = 1 /\ db[1].chat_id = OtherChatId /\ db[1].title = <<>>
    /\ Len(db[1].votes) = 2

\* the slot h takes a callback query in this step, on the connected store
Dispatched(h) ==
    /\ handlers[h].pc = "idle"
    /\ handlers'[h].pc # "idle"
    /\ votes_collection # "None"

C12_Step ==
    \A h \in Slots :
       (Dispatched(h) /\ handlers'[h].mid \notin Ids(db)) =>
          LET c == handlers'[h]
              doc == db'[Len(db')]
          IN  /\ Len(db') = Len(db) + 1
              /\ \A i \in 1..Len(db) : db'[i] = db[i]
              /\ doc.id = c.mid /\ doc.chat_id = ChatId /\ doc.title = <<>>
              /\ IF c.data = "check_voters"
                 THEN doc.votes = <<>> /\ c.current_votes = <<>>
                 ELSE /\ Len(doc.votes) = 1
                      /\ doc.votes[1].uid = c.uid
                      /\ doc.votes[1].name = c.user_name
                      /\ c.answers = <<"You rated this " \o ToString(doc.votes[1].score) \o "/10">>
                      /\ ToString(doc.votes[1].score) = c.data

\* C12 (state part): a disclosure request that found no votes has ended,
\* answered by the denial or by "no one has voted"; the leaderboard shows a
\* document without title as "Unknown Post".
C12_State ==
    /\ (Disclosed /\ last.call.current_votes = <<>>) =>
          /\ last.call.pc = "done"
          /\ last.call.answers \in { <<DeniedText>>, <<EmptyText>> }
    /\ last.handler = "cmd_top" =>
          \A e \in 1..Len(last.top_5) :
             \A i \in 1..Len(db) :
                (last.top_5[e].link = LinkTo(db[i].id) /\ db[i].title = <<>>) =>
                    last.top_5[e].title = "Unknown Post"

DbNotices == {DbErrorText, TopDbErrorText}

\* C13: without a store connection every handler call that has ended (post
\* intake, vote, disclosure request, /top) has answered its event with a
\* database-unavailable notice the user sees, has not raised, and the store
\* has not been touched (it holds at most the document of an earlier run).
\* (For post intake last.reply is what the handler logged when it sent
\* nothing.)
C13_DegradedNotice ==
    (votes_collection = "None" /\ last.handler # "none") =>
        /\ Ids(db) \subseteq {1}
        /\ \A i \in 1..Len(db) : db[i].votes = <<>>
        /\ last.handler = "handle_vote" =>
              last.call.pc = "done" /\ last.call.answers = <<DbErrorText>>
        /\ last.handler = "cmd_top" => last.reply = TopDbErrorText
        /\ last.handler = "add_rating_buttons" => last.reply \in DbNotices

\* C14: when BOT_TOKEN or MONGO_URI is not set, run_polling is never reached
\* and no handler runs.
C14_FatalWithoutConfig ==
    (~BOT_TOKEN \/ ~MONGO_URI) =>
        /\ phase # "polling"
        /\ last.handler = "none"
        /\ \A h \in Slots : Free(h)

\* the vote of the rating call in slot h is in the votes mapping of its message
Stored(h) ==
    /\ handlers[h].mid \in Ids(db)
    /\ HasVoted(FindOne(db, handlers[h].mid).votes, handlers[h].uid)

\* C15 (state part): while query.answer of a vote is awaited, the vote is
\* stored, the confirmation is the one request issued and no replace request
\* is; while edit_message_text is awaited, the confirmation has been issued;
\* a call that has ended has issued its replace request, if any, after its
\* one confirmation.
C15_State ==
    /\ \A h \in Slots :
         /\ handlers[h].pc = "answer" =>
               /\ Stored(h)
               /\ Len(handlers[h].answers) = 1
               /\ handlers[h].edits = <<>>
         /\ handlers[h].pc = "edit_message_text" =>
               /\ Stored(h)
               /\ Len(handlers[h].answers) = 1
               /\ Len(handlers[h].edits) = 1
    /\ (last.handler = "handle_vote" /\ last.call.edits # <<>>) =>
          Len(last.call.answers) = 1

\* C15 (step part): a step that issues the replace request of a call is taken
\* when the confirmation of that call has been issued and the vote is stored.
C15_Step ==
    \A h \in Slots :
       (handlers'[h].edits # <<>> /\ handlers[h].edits = <<>>) =>
          /\ handlers[h].pc = "answer"
          /\ handlers[h].answers # <<>>
          /\ Stored(h)

\* C15: in the handling of a vote event the confirmation to the voter is
\* issued after the vote is stored and before any replace request of the
\* panel; no execution issues the replace request of an event before that
\* event's confirmation.
C15_ConfirmBeforeReplace == []C15_State /\ [][C15_Step]_vars

\* C15 witness: two votes on panel 2 are in flight, the one awaiting its
\* replace request, the other its confirmation; both have been stored and
\* confirmed, and only the first has issued a replace request.
C15_Witness ==
    /\ handlers["h1"].pc = "edit_message_text"
    /\ handlers["h2"].pc = "answer"
    /\ handlers["h1"].mid = 2 /\ handlers["h2"].mid = 2
    /\ handlers["h1"].uid = "501" /\ handlers["h2"].uid = "502"
    /\ Stored("h1") /\ Stored("h2")
    /\ handlers["h1"].answers = <<"You rated this 2/10">>
    /\ handlers["h2"].answers = <<"You rated this 3/10">>
    /\ Len(handlers["h1"].edits) = 1
    /\ handlers["h2"].edits = <<>>

\* the votes mapping of message id m: that of its document, empty without one
VotesAt(coll, m) == IF m \in Ids(coll) THEN FindOne(coll, m).votes ELSE <<>>

\* the step dispatches a disclosure request to slot h, or is a step of the
\* disclosure request in slot h
DisclosureStep(h) ==
    \/ handlers[h].pc = "idle" /\ handlers'[h].pc = "get_chat_member"
    \/ handlers[h].pc = "get_chat_member" /\ handlers'[h] # handlers[h]

\* C16 (step part): a step of a disclosure request leaves the votes mapping
\* of every message id and every message of the channel as they are, and
\* sends nothing but what the call records as its answer.
C16_Step ==
    \A h \in Slots :
       DisclosureStep(h) =>
          /\ \A m \in 1..Len(msgs) : VotesAt(db', m) = VotesAt(db, m)
          /\ Len(db') >= Len(db)
          /\ \A i \in 1..Len(db) : db'[i] = db[i]
          /\ msgs' = msgs
          /\ handlers'[h].edits = <<>>
          /\ handlers'[h].pc = "idle" =>
                /\ last'.handler = "handle_vote"
                /\ last'.call.data = "check_voters"

\* C16 (state part): a disclosure request that has ended has issued one
\* acknowledgment (denial, empty or the voter list, or the database notice
\* without a store) and no replace request.
C16_State ==
    (last.handler = "handle_vote" /\ last.call.data = "check_voters") =>
        /\ last.call.pc = "done"
        /\ Len(last.call.answers) = 1
        /\ DisclosureKind(last.call.answers[1]) \/ last.call.answers[1] = DbErrorText
        /\ last.call.edits = <<>>
        /\ last.call.edited = ""

\* C16: a disclosure request leaves every post's votes mapping unchanged and
\* issues no send or replace request for the panel, whatever its outcome: its
\* only transport output is the acknowledgment to the requester.
C16_DisclosureReadOnly == []C16_State /\ [][C16_Step]_vars

\* C16 witness: a voter has been shown the list of the three voters of panel
\* 2; the votes are the three that were there and the panel shows the text
\* rendered of them.
C16_Witness ==
    /\ Disclosed
    /\ last.call.mid = 2
    /\ last.call.uid = "502"
    /\ StartsWith(last.call.answers[1], "@ Voters (2):")
    /\ Len(FindOne(db, 2).votes) = 2
    /\ FindOne(db, 2).votes = last.call.current_votes
    /\ msgs[2].text = ParseMarkdown(PanelText(FindOne(db, 2).votes))

\* the formatted disclosure text before any cut: the header and a line per voter
FullLines(votes, is_admin) ==
    << IF is_admin THEN "& Admin View (" \o ToString(Len(votes)) \o " votes):"
       ELSE "@ Voters (" \o ToString(Len(votes)) \o "):" >>
      \o [ i \in 1..Len(votes) |->
            IF is_admin THEN "+ " \o votes[i].name \o ": " \o ToString(votes[i].score)
            ELSE "+ " \o votes[i].name ]
\* the first k lines of the text followed by the truncation marker
WholeLines(lines, k) == Join(SubSeq(lines, 1, k), "\n") \o "..."

\* C17: the disclosure text sent is never longer than 200 characters; when
\* the full formatted text is longer, the text sent is the longest prefix of
\* whole lines that fits with the truncation marker, followed by the marker,
\* and does not end in a cut voter line.
C17_WholeLineTruncation ==
    (Disclosed /\ (StartsWith(last.call.answers[1], "@ Voters (")
                      \/ StartsWith(last.call.answers[1], "& Admin View ("))) =>
        LET c == last.call
            ans == c.answers[1]
            lines == FullLines(c.current_votes, AdminStatus(c.member))
            full == Join(lines, "\n")
        IN  /\ Len(ans) <= AlertLimit
            /\ IF Len(full) <= AlertLimit THEN ans = full
               ELSE \E k \in 1..Len(lines) :
                      /\ ans = WholeLines(lines, k)
                      /\ k < Len(lines) => Len(WholeLines(lines, k + 1)) > AlertLimit

\* no handle_vote call is in flight
Quiescent == \A h \in Slots : Free(h)

C19_LookupFailureIsNonAdmin ==
    (Disclosed /\ last.call.member = "error") =>
        LET c == last.call
            votes == FindOne(db, c.mid).votes
        IN  /\ c.pc = "done"
            /\ Len(c.answers) = 1
            /\ ~StartsWith(c.answers[1], "& Admin View (")
            /\ c.answers[1] # EmptyText
            /\ c.uid \notin VoteKeys(votes) => c.answers[1] = DeniedText
            /\ c.uid \in VoteKeys(votes) => NamesOnly(c.answers[1], votes)

\* C19 witness: the lookup failed for a requester who has voted, who got the
\* names of the two voters; the scores, 7 and 9, are not in the answer.
C19_Witness ==
    /\ Disclosed
    /\ last.call.member = "error"
    /\ last.call.uid = "502"
    /\ LET votes == FindOne(db, last.call.mid).votes
       IN  /\ Len(votes) = 2
           /\ votes[1].uid = "502" /\ votes[1].score = 7
           /\ votes[2].score = 9
           /\ last.call.answers = << "@ Voters (2):\n+ " \o votes[1].name
                                        \o "\n+ " \o votes[2].name >>

\* C20 (step part): no step removes a voter from the votes mapping of a
\* message id; a disclosure request dispatched when the requester's vote is
\* stored goes on with votes that hold it, keeps them while the lookup is
\* awaited, and is not answered with the denial.
C20_Step ==
    /\ \A m \in 1..Len(msgs) :
         VoteKeys(VotesAt(db, m)) \subseteq VoteKeys(VotesAt(db', m))
    /\ \A h \in Slots :
         LET c == handlers[h]
         IN  /\ (c.pc = "idle" /\ handlers'[h].pc = "get_chat_member"
                   /\ HasVoted(VotesAt(db, handlers'[h].mid), handlers'[h].uid)) =>
                  HasVoted(handlers'[h].current_votes, handlers'[h].uid)
             /\ (c.pc = "get_chat_member" /\ handlers'[h].pc = "get_chat_member") =>
                  handlers'[h].current_votes = c.current_votes
             /\ (c.pc = "get_chat_member" /\ handlers'[h].pc = "idle"
                   /\ HasVoted(c.current_votes, c.uid)) =>
                  /\ last'.call.uid = c.uid /\ last'.call.mid = c.mid
                  /\ Len(last'.call.answers) = 1
                  /\ last'.call.answers[1] # DeniedText

\* C20: once a user's vote on a post is stored, no later event (a vote by
\* anyone, a repeated post intake, a disclosure request, /top) removes the
\* user from the voters of the post, and every later disclosure request of
\* that user on that post is not answered with the denial.
C20_AccessMonotonic == [][C20_Step]_vars

\* C20 witness: user 502 voted on panel 2 and asked for the voters
\* afterwards; the lookup gave "member" and the answer is the list.
C20_Witness ==
    /\ Disclosed
    /\ last.call.uid = "502" /\ last.call.mid = 2
    /\ last.call.member = "member"
    /\ <<2, "502">> \in DOMAIN cast
    /\ HasVoted(FindOne(db, 2).votes, "502")
    /\ StartsWith(last.call.answers[1], "@ Voters (1):")

====
